---- MODULE Spec2Model ----
(***************************************************************************)
(* A model of src/financial_report_analyzer.py (FinancialReportAnalyzer).  *)
(*                                                                         *)
(* Strings are sequences of one-character strings wherever the code looks  *)
(* at characters (split, strip, startswith, join).  A prompt file is a     *)
(* sequence of tokens: the characters "[", "]" and " ", and atoms that     *)
(* stand for an unbroken run of other characters (the two required section *)
(* names, a piece of body text).                                           *)
(***************************************************************************)
EXTENDS Integers, Sequences, FiniteSets, TLC

VARIABLES
    ck_text,        \* chunk_text: the text argument
    ck_size,        \* chunk_text: self.chunk_size
    ck_pc,          \* chunk_text: "call" before the call, "done" after it
    ck_chunks,      \* chunk_text: the returned list
    pl_file,        \* _load_prompts: the prompt file, [exists, content]
    pl_pc,          \* _load_prompts: "call", "returned" or "raised"
    pl_out,         \* _load_prompts: the outcome, [ok, error, prompts]
    url_file,       \* the URL file, [exists, lines]: raw lines, each ending in "\n"
    self_chunk_size,     \* self.chunk_size of the analyzer
    bpc,            \* analyze_all_reports: "start", "loop", "returned", "raised"
    urls,           \* analyze_all_reports: the list _read_urls_from_file returned
    i,              \* analyze_all_reports: the loop's 1-based position (0 before it)
    results,        \* analyze_all_reports: the results dict, insertion-ordered
    calls,          \* every analyze_single_report invocation: [url, url_index, ret]
    rpc,            \* analyze_single_report: the step the invocation is at
    sr_pdf_path,       \* analyze_single_report: 0 for None, else the temp file
    sr_text,           \* analyze_single_report: the extracted text
    sr_chunks,         \* analyze_single_report: the chunk list
    sr_chunk_summaries,\* analyze_single_report: the summaries so far
    sr_final_summary,  \* analyze_single_report: what combine_summaries returned
    ret,            \* analyze_single_report: "pending", "True", "False", "raised"
    failed,         \* the step of this invocation that failed hard, "none" if none
    an_log,         \* this invocation's analyze_chunk calls and what each gave
    cb_log,         \* this invocation's combine_summaries calls and what each gave
    llm_log,        \* this invocation's chat-completion requests, in order
    temp_files,     \* the temporary PDF files that exist on disk
    out_dir,        \* the output directory, [exists, files]
    cl_text,        \* _clean_text: the text argument
    cl_pc,          \* _clean_text: "call" before the call, "done" after it
    cl_out,         \* _clean_text: the text after each rule, and the result
    fn_url,         \* filename derivation: the pdf_url argument
    fn_index,       \* filename derivation: the url_index argument
    fn_pc,          \* filename derivation: "call" before it, "done" after it
    fn_out          \* filename derivation: [none, name, filename]

chunk_vars == <<ck_text, ck_size, ck_pc, ck_chunks>>
prompt_vars == <<pl_file, pl_pc, pl_out>>
batch_vars == <<url_file, self_chunk_size, bpc, urls, i, results, calls>>
report_vars == <<rpc, sr_pdf_path, sr_text, sr_chunks, sr_chunk_summaries, sr_final_summary,
                 ret, failed,
                 an_log, cb_log, llm_log>>
disk_vars == <<temp_files, out_dir>>
pipeline_vars == <<batch_vars, report_vars, disk_vars>>
clean_vars == <<cl_text, cl_pc, cl_out>>
name_vars == <<fn_url, fn_index, fn_pc, fn_out>>
vars == <<chunk_vars, prompt_vars, pipeline_vars, clean_vars, name_vars>>

----------------------------------------------------------------------------
(* Bounds *)

MaxTextLen == 5
MaxChunkSize == 3
MaxPromptLen == 7
MaxLines == 2
MaxHostParts == 3
MaxUrlFileLen == 3
MaxCleanLen == 5

----------------------------------------------------------------------------
(* Python string helpers *)

\* The whitespace characters of the model's alphabet (str.split(), str.strip()).
Whitespace == {" ", "\n"}

RECURSIVE SplitAcc(_, _, _)
SplitAcc(s, cur, acc) ==
    IF s = <<>>
    THEN IF cur = <<>> THEN acc ELSE Append(acc, cur)
    ELSE IF Head(s) \in Whitespace
         THEN SplitAcc(Tail(s), <<>>, IF cur = <<>> THEN acc ELSE Append(acc, cur))
         ELSE SplitAcc(Tail(s), Append(cur, Head(s)), acc)

\* str.split() with no argument: the maximal runs of non-whitespace, in order.
split(s) == SplitAcc(s, <<>>, <<>>)

RECURSIVE join(_, _)
\* sep.join(items)
join(sep, items) ==
    IF items = <<>> THEN <<>>
    ELSE IF Len(items) = 1 THEN items[1]
    ELSE items[1] \o sep \o join(sep, Tail(items))

RECURSIVE lstrip(_)
lstrip(s) == IF s # <<>> /\ Head(s) \in Whitespace THEN lstrip(Tail(s)) ELSE s

RECURSIVE rstrip(_)
rstrip(s) ==
    IF s # <<>> /\ s[Len(s)] \in Whitespace THEN rstrip(SubSeq(s, 1, Len(s) - 1)) ELSE s

\* str.strip() with no argument
strip(s) == rstrip(lstrip(s))

\* All sequences over S of length at most n.
SeqsUpTo(S, n) == UNION {[1..k -> S] : k \in 0..n}

----------------------------------------------------------------------------
(* chunk_text *)

RECURSIVE ChunkLoopDropsRemainder(_, _, _, _, _)
ChunkLoopDropsRemainder(words, current_chunk, current_word_count, chunks, chunk_size) ==
    IF words = <<>>
    THEN chunks
    ELSE LET cc == Append(current_chunk, Head(words))
             n  == current_word_count + 1
         IN IF n >= chunk_size
            THEN ChunkLoopDropsRemainder(Tail(words), <<>>, 0, Append(chunks, join(<<" ">>, cc)), chunk_size)
            ELSE ChunkLoopDropsRemainder(Tail(words), cc, n, chunks, chunk_size)

RECURSIVE ChunkLoopOffByOne(_, _, _, _, _)
ChunkLoopOffByOne(words, current_chunk, current_word_count, chunks, chunk_size) ==
    IF words = <<>>
    THEN IF current_chunk # <<>> THEN Append(chunks, join(<<" ">>, current_chunk)) ELSE chunks
    ELSE LET cc == Append(current_chunk, Head(words))
             n  == current_word_count + 1
         IN IF n > chunk_size
            THEN ChunkLoopOffByOne(Tail(words), <<>>, 0, Append(chunks, join(<<" ">>, cc)), chunk_size)
            ELSE ChunkLoopOffByOne(Tail(words), cc, n, chunks, chunk_size)

RECURSIVE ChunkLoop(_, _, _, _, _)
\* The for loop of chunk_text and the final "if current_chunk".
ChunkLoop(words, current_chunk, current_word_count, chunks, chunk_size) ==
    IF words = <<>>
    THEN IF current_chunk # <<>> THEN Append(chunks, join(<<" ">>, current_chunk)) ELSE chunks
    ELSE LET cc == Append(current_chunk, Head(words))
             n  == current_word_count + 1
         IN IF n >= chunk_size
            THEN ChunkLoop(Tail(words), <<>>, 0, Append(chunks, join(<<" ">>, cc)), chunk_size)
            ELSE ChunkLoop(Tail(words), cc, n, chunks, chunk_size)

chunk_text_off_by_one(text, chunk_size) == ChunkLoopOffByOne(split(text), <<>>, 0, <<>>, chunk_size)

chunk_text_drops_remainder(text, chunk_size) ==
    ChunkLoopDropsRemainder(split(text), <<>>, 0, <<>>, chunk_size)

chunk_text(text, chunk_size) == ChunkLoop(split(text), <<>>, 0, <<>>, chunk_size)

----------------------------------------------------------------------------
(* _load_prompts *)

RECURSIVE SplitOn(_, _, _, _)
SplitOn(s, c, cur, acc) ==
    IF s = <<>> THEN Append(acc, cur)
    ELSE IF Head(s) = c THEN SplitOn(Tail(s), c, <<>>, Append(acc, cur))
    ELSE SplitOn(Tail(s), c, Append(cur, Head(s)), acc)

\* str.split(c) for a one-character separator: every piece, empty ones included.
split_on(s, c) == SplitOn(s, c, <<>>, <<>>)

\* The index of the first c in s, 0 when there is none (c in s, s.split(c, 1)).
first_index(s, c) ==
    IF \E k \in 1..Len(s) : s[k] = c
    THEN CHOOSE k \in 1..Len(s) : s[k] = c /\ \A j \in 1..(k - 1) : s[j] # c
    ELSE 0

\* A store that keeps the first value of a key instead of the last.
dict_set_keeps_first(d, key, value) ==
    [k \in DOMAIN d \cup {key} |-> IF k \in DOMAIN d THEN d[k] ELSE value]

\* prompts[key] = value on a dict
dict_set(d, key, value) ==
    [k \in DOMAIN d \cup {key} |-> IF k = key THEN value ELSE d[k]]

EmptyDict == [k \in {} |-> <<>>]

RECURSIVE ParseSectionsVerbatimName(_, _)
\* The section loop with the name stored as it stands between the brackets.
ParseSectionsVerbatimName(sections, prompts) ==
    IF sections = <<>> THEN prompts
    ELSE LET section == Head(sections)
             k == first_index(section, "]")
         IN IF k = 0
            THEN ParseSectionsVerbatimName(Tail(sections), prompts)
            ELSE LET section_name == SubSeq(section, 1, k - 1)
                     section_content == SubSeq(section, k + 1, Len(section))
                 IN ParseSectionsVerbatimName(Tail(sections),
                                              dict_set(prompts, section_name,
                                                       strip(section_content)))

RECURSIVE ParseSections(_, _)
\* The "for section in sections[1:]" loop.
ParseSections(sections, prompts) ==
    IF sections = <<>> THEN prompts
    ELSE LET section == Head(sections)
             k == first_index(section, "]")
         IN IF k = 0
            THEN ParseSections(Tail(sections), prompts)
            ELSE LET section_name == SubSeq(section, 1, k - 1)
                     section_content == SubSeq(section, k + 1, Len(section))
                 IN ParseSections(Tail(sections),
                                  dict_set(prompts, strip(section_name), strip(section_content)))

parse_prompts(content) == ParseSections(Tail(split_on(content, "[")), EmptyDict)

required_prompts == {<<"CHUNK_ANALYSIS_PROMPT">>, <<"SUMMARY_COMBINATION_PROMPT">>}

\* _load_prompts: the dict it returns, or the error it raises; parsed is the
\* local dict as the section loop left it, whether or not validation accepts it.
load_prompts(file) ==
    IF ~file.exists
    THEN [ok |-> FALSE, error |-> "FileNotFoundError", prompts |-> EmptyDict,
          parsed |-> EmptyDict]
    ELSE LET prompts == parse_prompts(file.content)
         IN IF \E required \in required_prompts : required \notin DOMAIN prompts
            THEN [ok |-> FALSE, error |-> "ValueError", prompts |-> EmptyDict,
                  parsed |-> prompts]
            ELSE [ok |-> TRUE, error |-> "", prompts |-> prompts, parsed |-> prompts]

----------------------------------------------------------------------------
(* _read_urls_from_file *)

StartsWith(s, prefix) == Len(s) >= Len(prefix) /\ SubSeq(s, 1, Len(prefix)) = prefix

S_http == <<"h", "t", "t", "p">>

RECURSIVE FilterLinesStopsAtJunk(_, _)
\* The line loop giving up at the first line that is neither blank, comment
\* nor URL.
FilterLinesStopsAtJunk(lines, found) ==
    IF lines = <<>> THEN found
    ELSE LET line == strip(Head(lines))
         IN IF line # <<>> /\ ~StartsWith(line, <<"#">>)
            THEN IF StartsWith(line, S_http)
                 THEN FilterLinesStopsAtJunk(Tail(lines), Append(found, line))
                 ELSE found
            ELSE FilterLinesStopsAtJunk(Tail(lines), found)

RECURSIVE FilterLines(_, _)
\* The "for line_num, line in enumerate(lines, 1)" loop.
FilterLines(lines, found) ==
    IF lines = <<>> THEN found
    ELSE LET line == strip(Head(lines))
         IN IF line # <<>> /\ ~StartsWith(line, <<"#">>)
            THEN IF StartsWith(line, S_http)
                 THEN FilterLines(Tail(lines), Append(found, line))
                 ELSE FilterLines(Tail(lines), found)
            ELSE FilterLines(Tail(lines), found)

\* The reader without the "no valid URLs" check: an empty list is returned.
read_urls_allows_empty(file) ==
    IF ~file.exists
    THEN [ok |-> FALSE, error |-> "FileNotFoundError", urls |-> <<>>]
    ELSE [ok |-> TRUE, error |-> "", urls |-> FilterLines(file.lines, <<>>)]

\* _read_urls_from_file: the list it returns, or the error it raises.
read_urls_from_file(file) ==
    IF ~file.exists
    THEN [ok |-> FALSE, error |-> "FileNotFoundError", urls |-> <<>>]
    ELSE LET found == FilterLines(file.lines, <<>>)
         IN IF found = <<>>
            THEN [ok |-> FALSE, error |-> "ValueError", urls |-> <<>>]
            ELSE [ok |-> TRUE, error |-> "", urls |-> found]

----------------------------------------------------------------------------
(* _extract_company_name_from_url *)

Letters ==
    {"a", "b", "c", "d", "e", "f", "g", "h", "i", "j", "k", "l", "m", "n", "o", "p", "q",
     "r", "s", "t", "u", "v", "w", "x", "y", "z"}
UpperLetters == {"J", "N"}
Digits == {"0", "1", "2", "3", "4", "5", "6", "7", "8", "9"}

\* str.lower() on one character (the upper-case letters of the model's alphabet).
lower_char(c) == CASE c = "J" -> "j" [] c = "N" -> "n" [] OTHER -> c
lower(s) == [k \in 1..Len(s) |-> lower_char(s[k])]

Contains(s, sub) ==
    \E k \in 1..(Len(s) - Len(sub) + 1) : SubSeq(s, k, k + Len(sub) - 1) = sub

SetMin(S) == CHOOSE m \in S : \A n \in S : m <= n

\* urlparse(url).netloc: [ok, netloc]; not ok when urlparse raises ValueError
\* (a netloc with one square bracket and not the other).
url_netloc(url) ==
    LET c == first_index(url, ":")
        scheme_ok == c > 1 /\ \A k \in 1..(c - 1) : url[k] \in Letters \cup Digits \cup {"+", "-", "."}
        rest == IF scheme_ok THEN SubSeq(url, c + 1, Len(url)) ELSE url
    IN IF StartsWith(rest, <<"/", "/">>)
       THEN LET after == SubSeq(rest, 3, Len(rest))
                stops == {k \in 1..Len(after) : after[k] \in {"/", "?", "#"}}
                last == IF stops = {} THEN Len(after) ELSE SetMin(stops) - 1
                netloc == SubSeq(after, 1, last)
                open == \E k \in 1..Len(netloc) : netloc[k] = "["
                close == \E k \in 1..Len(netloc) : netloc[k] = "]"
            IN [ok |-> open = close, netloc |-> netloc]
       ELSE [ok |-> TRUE, netloc |-> <<>>]

P_www == <<"w", "w", "w", ".">>
P_assets == <<"a", "s", "s", "e", "t", "s", ".">>
P_assets_dam == <<"a", "s", "s", "e", "t", "s", "-", "d", "a", "m", ".">>

\* re.sub(r'^(www\.|assets\.|assets-dam\.)', '', domain)
strip_prefix(domain) ==
    IF StartsWith(domain, P_www) THEN SubSeq(domain, Len(P_www) + 1, Len(domain))
    ELSE IF StartsWith(domain, P_assets) THEN SubSeq(domain, Len(P_assets) + 1, Len(domain))
    ELSE IF StartsWith(domain, P_assets_dam)
         THEN SubSeq(domain, Len(P_assets_dam) + 1, Len(domain))
    ELSE domain

S_novartis == <<"n", "o", "v", "a", "r", "t", "i", "s">>
S_gsk == <<"g", "s", "k">>
S_takeda == <<"t", "a", "k", "e", "d", "a">>
S_pfizer == <<"p", "f", "i", "z", "e", "r">>
S_roche == <<"r", "o", "c", "h", "e">>
S_jnj == <<"j", "n", "j">>
S_johnson_and_johnson ==
    <<"j", "o", "h", "n", "s", "o", "n", "_", "a", "n", "d", "_", "j", "o", "h", "n", "s", "o", "n">>
S_merck == <<"m", "e", "r", "c", "k">>
S_abbvie == <<"a", "b", "b", "v", "i", "e">>
S_amgen == <<"a", "m", "g", "e", "n">>
S_gilead == <<"g", "i", "l", "e", "a", "d">>

\* company_mapping, in the dict's order: <<key, value>>
company_mapping ==
    << <<S_novartis, S_novartis>>, <<S_gsk, S_gsk>>, <<S_takeda, S_takeda>>,
       <<S_pfizer, S_pfizer>>, <<S_roche, S_roche>>, <<S_jnj, S_johnson_and_johnson>>,
       <<S_merck, S_merck>>, <<S_abbvie, S_abbvie>>, <<S_amgen, S_amgen>>,
       <<S_gilead, S_gilead>> >>

\* re.sub(r'[^a-zA-Z0-9]', '_', name)
sanitize(name) ==
    [k \in 1..Len(name) |->
        IF name[k] \in Letters \cup UpperLetters \cup Digits THEN name[k] ELSE "_"]

\* The derivation with the company table consulted for every host, dotted or not.
extract_company_name_table_first(url) ==
    LET parsed == url_netloc(url)
    IN IF ~parsed.ok THEN [none |-> TRUE, name |-> <<>>]
       ELSE LET domain == strip_prefix(lower(parsed.netloc))
                company_name == split_on(domain, ".")[1]
                hits == {k \in 1..Len(company_mapping) : Contains(company_name, company_mapping[k][1])}
            IN IF hits # {}
               THEN [none |-> FALSE, name |-> company_mapping[SetMin(hits)][2]]
               ELSE [none |-> FALSE, name |-> lower(sanitize(company_name))]

\* _extract_company_name_from_url: [none, name]; none when it returns None.
extract_company_name_from_url(url) ==
    LET parsed == url_netloc(url)
    IN IF ~parsed.ok THEN [none |-> TRUE, name |-> <<>>]
       ELSE LET domain == strip_prefix(lower(parsed.netloc))
                domain_parts == split_on(domain, ".")
                company_name == domain_parts[1]
                hits == {k \in 1..Len(company_mapping) : Contains(company_name, company_mapping[k][1])}
            IN IF Len(domain_parts) >= 2
               THEN IF hits # {}
                    THEN [none |-> FALSE, name |-> company_mapping[SetMin(hits)][2]]
                    ELSE [none |-> FALSE, name |-> lower(sanitize(company_name))]
               ELSE [none |-> FALSE, name |-> lower(sanitize(domain_parts[1]))]

S_analysis_txt == <<"_", "a", "n", "a", "l", "y", "s", "i", "s", ".", "t", "x", "t">>
S_report_ == <<"r", "e", "p", "o", "r", "t", "_">>

\* The filename analyze_single_report writes to.
output_filename(pdf_url, url_index) ==
    LET company_name == extract_company_name_from_url(pdf_url)
    IN IF ~company_name.none /\ company_name.name # <<>>
       THEN company_name.name \o S_analysis_txt
       ELSE S_report_ \o <<ToString(url_index)>> \o S_analysis_txt

----------------------------------------------------------------------------
(* _clean_text *)

RECURSIVE RunEnd(_, _, _)
\* The index of the last character of the longest run of characters of class
\* that starts at p; p - 1 when there is none (a greedy \s* or \d+).
RunEnd(s, p, class) ==
    IF p <= Len(s) /\ s[p] \in class THEN RunEnd(s, p + 1, class) ELSE p - 1

\* The index of the last newline in s[from..to], 0 when there is none (where a
\* greedy \s* followed by \n ends).
LastNewline(s, from, to) ==
    LET at == {k \in from..to : s[k] = "\n"}
    IN IF at = {} THEN 0 ELSE CHOOSE k \in at : \A n \in at : n <= k

RECURSIVE CollapseFrom(_, _, _)
\* re.sub(r'\s+', ' ', text)
CollapseFrom(s, p, acc) ==
    IF p > Len(s) THEN acc
    ELSE IF s[p] \in Whitespace
         THEN CollapseFrom(s, RunEnd(s, p, Whitespace) + 1, Append(acc, " "))
         ELSE CollapseFrom(s, p + 1, Append(acc, s[p]))

collapse_whitespace(text) == CollapseFrom(text, 1, <<>>)

\* Where a match of \n\s*\d+\s*\n that starts at p ends; 0 when none does.
PageNumberMatchEnd(s, p) ==
    IF s[p] # "\n" THEN 0
    ELSE LET a == RunEnd(s, p + 1, Whitespace)
             d == RunEnd(s, a + 1, Digits)
             w == RunEnd(s, d + 1, Whitespace)
         IN IF d <= a THEN 0 ELSE LastNewline(s, d + 1, w)

RECURSIVE PageNumbersFrom(_, _, _)
\* re.sub(r'\n\s*\d+\s*\n', '\n', text)
PageNumbersFrom(s, p, acc) ==
    IF p > Len(s) THEN acc
    ELSE IF PageNumberMatchEnd(s, p) # 0
         THEN PageNumbersFrom(s, PageNumberMatchEnd(s, p) + 1, Append(acc, "\n"))
         ELSE PageNumbersFrom(s, p + 1, Append(acc, s[p]))

remove_page_numbers(text) == PageNumbersFrom(text, 1, <<>>)

\* Where a match of \n\s*\n\s*\n that starts at p ends; 0 when none does.
BlankLinesMatchEnd(s, p) ==
    IF s[p] # "\n" THEN 0
    ELSE LET w == RunEnd(s, p + 1, Whitespace)
             at == {k \in (p + 1)..w : s[k] = "\n"}
         IN IF \E k, n \in at : k # n THEN LastNewline(s, p + 1, w) ELSE 0

RECURSIVE BlankLinesFrom(_, _, _)
\* re.sub(r'\n\s*\n\s*\n', '\n\n', text)
BlankLinesFrom(s, p, acc) ==
    IF p > Len(s) THEN acc
    ELSE IF BlankLinesMatchEnd(s, p) # 0
         THEN BlankLinesFrom(s, BlankLinesMatchEnd(s, p) + 1, acc \o <<"\n", "\n">>)
         ELSE BlankLinesFrom(s, p + 1, Append(acc, s[p]))

remove_blank_lines(text) == BlankLinesFrom(text, 1, <<>>)

\* The three rules with whitespace collapsed last instead of first.
clean_text_collapses_last(text) ==
    IF text = <<>>
    THEN [collapsed |-> <<>>, depaged |-> <<>>, deblanked |-> <<>>, result |-> <<>>]
    ELSE LET depaged == remove_page_numbers(text)
             deblanked == remove_blank_lines(depaged)
             collapsed == collapse_whitespace(deblanked)
         IN [collapsed |-> collapsed, depaged |-> depaged, deblanked |-> deblanked,
             result |-> strip(collapsed)]

\* _clean_text: the text after each of the three substitutions, and the
\* string returned.
clean_text(text) ==
    IF text = <<>>
    THEN [collapsed |-> <<>>, depaged |-> <<>>, deblanked |-> <<>>, result |-> <<>>]
    ELSE LET collapsed == collapse_whitespace(text)
             depaged == remove_page_numbers(collapsed)
             deblanked == remove_blank_lines(depaged)
         IN [collapsed |-> collapsed, depaged |-> depaged, deblanked |-> deblanked,
             result |-> strip(deblanked)]

----------------------------------------------------------------------------
(* analyze_chunk and combine_summaries *)

\* Python values that are a str or None.
Str(s) == [kind |-> "str", s |-> s]
NoneVal == [kind |-> "None", s |-> <<>>]

\* What one chat-completion request can do: return a completion with text,
\* return one whose message.content is None, return one with no choices
\* (response.choices[0] raises IndexError), or raise an API error.
LLMOutcomes == {"text", "none", "malformed", "error"}
CompletionText == <<"T">>
ApiErrorMessage == <<"E">>
IndexErrorMessage == <<"list index out of range">>

\* str(e) of the exception the try block catches
llm_error_message(llm) == IF llm = "malformed" THEN IndexErrorMessage ELSE ApiErrorMessage

\* dict.get(key, default)
dict_get(d, key, default) == IF key \in DOMAIN d THEN d[key] ELSE default

\* str.format raises on a template with a stray brace (the token "{").
format_raises(template) == \E k \in 1..Len(template) : template[k] = "{"

\* analyze_chunk: [raised, error, value, requests]: whether it raises and what,
\* else the value it returns, and the number of requests it sent.
analyze_chunk(prompts, chunk, chunk_number, total_chunks, llm) ==
    LET prompt_template == dict_get(prompts, <<"CHUNK_ANALYSIS_PROMPT">>, <<>>)
    IN IF prompt_template = <<>>
       THEN [raised |-> TRUE, error |-> "ValueError", value |-> NoneVal, requests |-> 0]
       ELSE IF format_raises(prompt_template)
       THEN [raised |-> TRUE, error |-> "FormatError", value |-> NoneVal, requests |-> 0]
       ELSE CASE llm = "text" ->
                   [raised |-> FALSE, error |-> "", value |-> Str(CompletionText), requests |-> 1]
              [] llm = "none" ->
                   [raised |-> FALSE, error |-> "", value |-> NoneVal, requests |-> 1]
              [] OTHER ->
                   [raised |-> FALSE, error |-> "", requests |-> 1,
                    value |-> Str(<<"Error analyzing chunk ", ToString(chunk_number), ": ">>
                                  \o llm_error_message(llm))]

\* "\n\n".join(chunk_summaries) on the strings' contents
joined_summaries(chunk_summaries) ==
    join(<<"\n\n">>, [k \in 1..Len(chunk_summaries) |-> chunk_summaries[k].s])

\* combine_summaries: [raised, error, value, requests, combined_text]
combine_summaries(prompts, chunk_summaries, llm) ==
    LET prompt_template == dict_get(prompts, <<"SUMMARY_COMBINATION_PROMPT">>, <<>>)
        combined_text == joined_summaries(chunk_summaries)
    IN IF \E k \in 1..Len(chunk_summaries) : chunk_summaries[k].kind # "str"
       THEN [raised |-> TRUE, error |-> "TypeError", value |-> NoneVal, requests |-> 0,
             combined_text |-> <<>>]
       ELSE IF prompt_template = <<>>
       THEN [raised |-> TRUE, error |-> "ValueError", value |-> NoneVal, requests |-> 0,
             combined_text |-> combined_text]
       ELSE IF format_raises(prompt_template)
       THEN [raised |-> TRUE, error |-> "FormatError", value |-> NoneVal, requests |-> 0,
             combined_text |-> combined_text]
       ELSE CASE llm = "text" ->
                   [raised |-> FALSE, error |-> "", value |-> Str(CompletionText),
                    requests |-> 1, combined_text |-> combined_text]
              [] llm = "none" ->
                   [raised |-> FALSE, error |-> "", value |-> NoneVal,
                    requests |-> 1, combined_text |-> combined_text]
              [] OTHER ->
                   [raised |-> FALSE, error |-> "", requests |-> 1,
                    combined_text |-> combined_text,
                    value |-> Str(<<"Error generating final summary: ">>
                                  \o llm_error_message(llm))]

----------------------------------------------------------------------------
(* The results dict of analyze_all_reports: a sequence of [key, value] in
   insertion order *)

odict_keys(d) == [k \in 1..Len(d) |-> d[k].key]

odict_append(d, key, value) == Append(d, [key |-> key, value |-> value])

\* results[url] = success: a new key goes last, a known key keeps its place.
odict_set(d, key, value) ==
    IF \E k \in 1..Len(d) : d[k].key = key
    THEN [k \in 1..Len(d) |-> IF d[k].key = key THEN [key |-> key, value |-> value] ELSE d[k]]
    ELSE Append(d, [key |-> key, value |-> value])

----------------------------------------------------------------------------
(* The batch: the analyzer is constructed (_load_prompts), analyze_all_reports
   reads the URL file and runs analyze_single_report for each URL in turn.
   The environment decides, at each step that touches it, whether the step
   works: the download, the temporary file, the text extractor, every
   chat-completion request, the output directory and file, the unlink. *)

URL_JNJ_A ==
    <<"h", "t", "t", "p", ":", "/", "/", "w", "w", "w", ".", "j", "n", "j", ".", "c", "o", "m",
      "/", "a", "\n">>
URL_JNJ_B ==
    <<"h", "t", "t", "p", "s", ":", "/", "/", "J", "N", "J", ".", "c", "o", "m", "/", "b", "\n">>
URL_NOHOST == <<"h", "t", "t", "p", ":", "/", "x", "\n">>
LINE_JUNK == <<"f", "t", "p", ":", "/", "/", "x", ".", "i", "o", "\n">>

LINE_COMMENT == <<"#", "h", "t", "t", "p", ":", "/", "/", "x", ".", "i", "o", "\n">>
LINE_BLANK == <<" ", "\n">>

\* The lines a URL file of the pipeline model is made of.
FileLines == {URL_JNJ_A, URL_JNJ_B, URL_NOHOST, LINE_JUNK, LINE_COMMENT, LINE_BLANK}

ExistingFile(content) == [exists |-> TRUE, content |-> content]

\* The prompt files of the pipeline model: none, a complete one, one without the
\* combination section, one with an empty chunk section, one with an empty
\* combination section, one whose chunk template has a stray brace.
PipelinePromptFiles ==
    { [exists |-> FALSE, content |-> <<>>],
      ExistingFile(<<"[", "CHUNK_ANALYSIS_PROMPT", "]", "x", "\n",
                     "[", "SUMMARY_COMBINATION_PROMPT", "]", "x">>),
      ExistingFile(<<"[", "CHUNK_ANALYSIS_PROMPT", "]", "x">>),
      ExistingFile(<<"[", "CHUNK_ANALYSIS_PROMPT", "]", "\n",
                     "[", "SUMMARY_COMBINATION_PROMPT", "]", "x">>),
      ExistingFile(<<"[", "CHUNK_ANALYSIS_PROMPT", "]", "x", "\n",
                     "[", "SUMMARY_COMBINATION_PROMPT", "]">>),
      ExistingFile(<<"[", "CHUNK_ANALYSIS_PROMPT", "]", "{", "\n",
                     "[", "SUMMARY_COMBINATION_PROMPT", "]", "x">>) }

\* What extract_text_from_pdf can return: nothing, blank pages only, one word,
\* two words.
PdfTexts == {<<>>, <<"\n", "\n">>, <<"a">>, <<"a", " ", "b">>}

PipelineChunkSizes == {1, 2}

DividerWidth == 80

NoFiles == [f \in {} |-> <<>>]

\* What the with block leaves in the file: the three header writes, then the
\* summary when the last write worked.
FileContent(pdf_url, body, complete) ==
    [title |-> "Financial Report Analysis", source |-> pdf_url, divider |-> DividerWidth,
     body |-> body, complete |-> complete]

CleanIdle == cl_text = <<>> /\ cl_pc = "idle" /\ cl_out = <<>>
NameIdle == fn_url = <<>> /\ fn_index = 1 /\ fn_pc = "idle" /\ fn_out = <<>>

ReportIdle ==
    /\ rpc = "idle"
    /\ sr_pdf_path = 0
    /\ sr_text = <<>>
    /\ sr_chunks = <<>>
    /\ sr_chunk_summaries = <<>>
    /\ sr_final_summary = NoneVal
    /\ ret = "pending"
    /\ failed = "none"
    /\ an_log = <<>>
    /\ cb_log = <<>>
    /\ llm_log = <<>>

PipelineIdle ==
    /\ url_file = [exists |-> FALSE, lines |-> <<>>]
    /\ self_chunk_size = 1
    /\ bpc = "idle"
    /\ urls = <<>>
    /\ i = 0
    /\ results = <<>>
    /\ calls = <<>>
    /\ ReportIdle
    /\ temp_files = {}
    /\ out_dir = [exists |-> FALSE, files |-> NoFiles]

Init ==
    /\ pl_file \in PipelinePromptFiles
    /\ pl_pc = "call"
    /\ pl_out = [ok |-> FALSE, error |-> "", prompts |-> EmptyDict]
    /\ url_file \in {[exists |-> FALSE, lines |-> <<>>]}
                    \cup {[exists |-> TRUE, lines |-> l] : l \in SeqsUpTo(FileLines, MaxLines)}
    /\ self_chunk_size \in PipelineChunkSizes
    /\ bpc = "start"
    /\ urls = <<>>
    /\ i = 0
    /\ results = <<>>
    /\ calls = <<>>
    /\ ReportIdle
    /\ temp_files = {}
    /\ out_dir = [exists |-> FALSE, files |-> NoFiles]
    /\ ck_text = <<>> /\ ck_size = 1 /\ ck_pc = "idle" /\ ck_chunks = <<>>
    /\ CleanIdle
    /\ NameIdle

\* urls = self._read_urls_from_file(url_file) returns
ReadUrlsReturns ==
    /\ pl_pc = "returned"
    /\ bpc = "start"
    /\ read_urls_from_file(url_file).ok
    /\ urls' = read_urls_from_file(url_file).urls
    /\ bpc' = "loop"
    /\ UNCHANGED <<url_file, self_chunk_size, i, results, calls, report_vars, disk_vars,
                   chunk_vars, prompt_vars,
                   clean_vars, name_vars>>

\* it raises, and analyze_all_reports with it
ReadUrlsRaises ==
    /\ pl_pc = "returned"
    /\ bpc = "start"
    /\ ~read_urls_from_file(url_file).ok
    /\ bpc' = "raised"
    /\ UNCHANGED <<url_file, self_chunk_size, urls, i, results, calls, report_vars, disk_vars,
                   chunk_vars, prompt_vars,
                   clean_vars, name_vars>>

\* The loop counting from 0: enumerate(urls) without its start argument.
CallReportZeroBased ==
    /\ bpc = "loop"
    /\ rpc = "idle"
    /\ i < Len(urls)
    /\ i' = i + 1
    /\ calls' = Append(calls, [url |-> urls[i + 1], url_index |-> i, ret |-> "pending"])
    /\ rpc' = "download"
    /\ sr_pdf_path' = 0
    /\ sr_text' = <<>>
    /\ sr_chunks' = <<>>
    /\ sr_chunk_summaries' = <<>>
    /\ sr_final_summary' = NoneVal
    /\ ret' = "pending"
    /\ failed' = "none"
    /\ an_log' = <<>>
    /\ cb_log' = <<>>
    /\ llm_log' = <<>>
    /\ UNCHANGED <<url_file, self_chunk_size, bpc, urls, results, disk_vars, chunk_vars,
                   prompt_vars, clean_vars, name_vars>>

\* The for loop calls analyze_single_report(url, output_dir, i).
CallReport ==
    /\ bpc = "loop"
    /\ rpc = "idle"
    /\ i < Len(urls)
    /\ i' = i + 1
    /\ calls' = Append(calls, [url |-> urls[i + 1], url_index |-> i + 1, ret |-> "pending"])
    /\ rpc' = "download"
    /\ sr_pdf_path' = 0
    /\ sr_text' = <<>>
    /\ sr_chunks' = <<>>
    /\ sr_chunk_summaries' = <<>>
    /\ sr_final_summary' = NoneVal
    /\ ret' = "pending"
    /\ failed' = "none"
    /\ an_log' = <<>>
    /\ cb_log' = <<>>
    /\ llm_log' = <<>>
    /\ UNCHANGED <<url_file, self_chunk_size, bpc, urls, results, disk_vars, chunk_vars,
                   prompt_vars,
                   clean_vars, name_vars>>

\* The step at `at` raises an Exception: the except clause logs it and the
\* function is left with False, through the finally clause.
Fails(at) ==
    /\ failed' = at
    /\ ret' = "False"
    /\ rpc' = "finally"

\* download_pdf: requests.get or raise_for_status raises
DownloadFails ==
    /\ rpc = "download"
    /\ Fails("download")
    /\ UNCHANGED <<batch_vars, sr_pdf_path, sr_text, sr_chunks, sr_chunk_summaries,
                   sr_final_summary, an_log, cb_log, llm_log, disk_vars, chunk_vars,
                   prompt_vars,
                   clean_vars, name_vars>>

\* download_pdf: the temporary file is created and temp_file.write raises; the
\* name never reaches pdf_path
DownloadWriteFails ==
    /\ rpc = "download"
    /\ temp_files' = temp_files \cup {i}
    /\ Fails("temp_write")
    /\ UNCHANGED <<batch_vars, sr_pdf_path, sr_text, sr_chunks, sr_chunk_summaries,
                   sr_final_summary, an_log, cb_log, llm_log, out_dir, chunk_vars,
                   prompt_vars,
                   clean_vars, name_vars>>

\* pdf_path = self.download_pdf(pdf_url)
DownloadOk ==
    /\ rpc = "download"
    /\ temp_files' = temp_files \cup {i}
    /\ sr_pdf_path' = i
    /\ rpc' = "extract"
    /\ UNCHANGED <<batch_vars, sr_text, sr_chunks, sr_chunk_summaries, sr_final_summary,
                   ret, failed, an_log, cb_log, llm_log, out_dir, chunk_vars, prompt_vars,
                   clean_vars, name_vars>>

\* extract_text_from_pdf raises
ExtractFails ==
    /\ rpc = "extract"
    /\ Fails("extract")
    /\ UNCHANGED <<batch_vars, sr_pdf_path, sr_text, sr_chunks, sr_chunk_summaries,
                   sr_final_summary, an_log, cb_log, llm_log, disk_vars, chunk_vars,
                   prompt_vars,
                   clean_vars, name_vars>>

\* text = self.extract_text_from_pdf(pdf_path); if not text.strip(): raise
ExtractOk ==
    /\ rpc = "extract"
    /\ \E t \in PdfTexts :
          /\ sr_text' = t
          /\ IF strip(t) = <<>>
             THEN Fails("empty_text")
             ELSE rpc' = "chunk" /\ UNCHANGED <<ret, failed>>
    /\ UNCHANGED <<batch_vars, sr_pdf_path, sr_chunks, sr_chunk_summaries, sr_final_summary,
                   an_log, cb_log, llm_log, disk_vars, chunk_vars, prompt_vars,
                   clean_vars, name_vars>>

\* chunks = self.chunk_text(text); if not chunks: raise
ChunkStep ==
    /\ rpc = "chunk"
    /\ sr_chunks' = chunk_text(sr_text, self_chunk_size)
    /\ IF chunk_text(sr_text, self_chunk_size) = <<>>
       THEN Fails("no_chunks")
       ELSE rpc' = "analyze" /\ UNCHANGED <<ret, failed>>
    /\ UNCHANGED <<batch_vars, sr_pdf_path, sr_text, sr_chunk_summaries, sr_final_summary,
                   an_log, cb_log, llm_log, disk_vars, chunk_vars, prompt_vars,
                   clean_vars, name_vars>>

\* summary = self.analyze_chunk(chunk, i, len(chunks)); chunk_summaries.append(summary)
AnalyzeStep ==
    /\ rpc = "analyze"
    /\ \E llm \in LLMOutcomes :
          LET n == Len(sr_chunk_summaries) + 1
              r == analyze_chunk(pl_out.prompts, sr_chunks[n], n, Len(sr_chunks), llm)
          IN /\ an_log' = Append(an_log, [chunk_number |-> n,
                                          llm |-> IF r.requests = 0 THEN "unused" ELSE llm,
                                          raised |-> r.raised, value |-> r.value])
             /\ llm_log' = IF r.requests = 0 THEN llm_log
                           ELSE Append(llm_log, [kind |-> "chunk", chunk_number |-> n])
             /\ IF r.raised
                THEN Fails("analyze_chunk") /\ UNCHANGED sr_chunk_summaries
                ELSE /\ sr_chunk_summaries' = Append(sr_chunk_summaries, r.value)
                     /\ rpc' = IF n = Len(sr_chunks) THEN "combine" ELSE "analyze"
                     /\ UNCHANGED <<ret, failed>>
    /\ UNCHANGED <<batch_vars, sr_pdf_path, sr_text, sr_chunks, sr_final_summary, cb_log,
                   disk_vars, chunk_vars, prompt_vars,
                   clean_vars, name_vars>>

\* final_summary = self.combine_summaries(chunk_summaries)
CombineStep ==
    /\ rpc = "combine"
    /\ \E llm \in LLMOutcomes :
          LET r == combine_summaries(pl_out.prompts, sr_chunk_summaries, llm)
          IN /\ cb_log' = Append(cb_log, [chunk_summaries |-> sr_chunk_summaries,
                                          llm |-> IF r.requests = 0 THEN "unused" ELSE llm,
                                          raised |-> r.raised, value |-> r.value,
                                          requests |-> r.requests])
             /\ llm_log' = IF r.requests = 0 THEN llm_log
                           ELSE Append(llm_log, [kind |-> "combine", chunk_number |-> 0])
             /\ IF r.raised
                THEN Fails("combine_summaries") /\ UNCHANGED sr_final_summary
                ELSE /\ sr_final_summary' = r.value
                     /\ rpc' = "makedirs"
                     /\ UNCHANGED <<ret, failed>>
    /\ UNCHANGED <<batch_vars, sr_pdf_path, sr_text, sr_chunks, sr_chunk_summaries, an_log,
                   disk_vars, chunk_vars, prompt_vars,
                   clean_vars, name_vars>>

\* os.makedirs(output_dir, exist_ok=True)
MakedirsOk ==
    /\ rpc = "makedirs"
    /\ out_dir' = [out_dir EXCEPT !.exists = TRUE]
    /\ rpc' = "write"
    /\ UNCHANGED <<batch_vars, sr_pdf_path, sr_text, sr_chunks, sr_chunk_summaries,
                   sr_final_summary, ret, failed, an_log, cb_log, llm_log, temp_files,
                   chunk_vars, prompt_vars,
                   clean_vars, name_vars>>

\* os.makedirs raises
MakedirsFails ==
    /\ rpc = "makedirs"
    /\ Fails("makedirs")
    /\ UNCHANGED <<batch_vars, sr_pdf_path, sr_text, sr_chunks, sr_chunk_summaries,
                   sr_final_summary, an_log, cb_log, llm_log, disk_vars, chunk_vars,
                   prompt_vars,
                   clean_vars, name_vars>>

\* open(output_path, 'w') raises: nothing is created or truncated
WriteOpenFails ==
    /\ rpc = "write"
    /\ Fails("open")
    /\ UNCHANGED <<batch_vars, sr_pdf_path, sr_text, sr_chunks, sr_chunk_summaries,
                   sr_final_summary, an_log, cb_log, llm_log, disk_vars, chunk_vars,
                   prompt_vars,
                   clean_vars, name_vars>>

\* The with block with the file opened for appending: what is written
\* follows what the file held.
WriteOkAppends ==
    /\ rpc = "write"
    /\ sr_final_summary.kind = "str"
    /\ LET filename == output_filename(calls[i].url, calls[i].url_index)
       IN out_dir' = [out_dir EXCEPT !.files =
                         dict_set(@, filename,
                                  IF filename \in DOMAIN out_dir.files
                                  THEN [out_dir.files[filename] EXCEPT
                                           !.body = @ \o sr_final_summary.s, !.complete = TRUE]
                                  ELSE FileContent(calls[i].url, sr_final_summary.s, TRUE))]
    /\ ret' = "True"
    /\ rpc' = "finally"
    /\ UNCHANGED <<batch_vars, sr_pdf_path, sr_text, sr_chunks, sr_chunk_summaries,
                   sr_final_summary, failed, an_log, cb_log, llm_log, temp_files,
                   chunk_vars, prompt_vars, clean_vars, name_vars>>

\* The with block runs to its end; return True.
WriteOk ==
    /\ rpc = "write"
    /\ sr_final_summary.kind = "str"
    /\ out_dir' = [out_dir EXCEPT !.files =
                      dict_set(@, output_filename(calls[i].url, calls[i].url_index),
                               FileContent(calls[i].url, sr_final_summary.s, TRUE))]
    /\ ret' = "True"
    /\ rpc' = "finally"
    /\ UNCHANGED <<batch_vars, sr_pdf_path, sr_text, sr_chunks, sr_chunk_summaries,
                   sr_final_summary, failed, an_log, cb_log, llm_log, temp_files,
                   chunk_vars, prompt_vars,
                   clean_vars, name_vars>>

\* f.write(final_summary) raises after the header lines were written: an
\* OSError, or the TypeError of writing None.
WriteSummaryFails ==
    /\ rpc = "write"
    /\ out_dir' = [out_dir EXCEPT !.files =
                      dict_set(@, output_filename(calls[i].url, calls[i].url_index),
                               FileContent(calls[i].url, <<>>, FALSE))]
    /\ Fails(IF sr_final_summary.kind = "str" THEN "write" ELSE "write_none")
    /\ UNCHANGED <<batch_vars, sr_pdf_path, sr_text, sr_chunks, sr_chunk_summaries,
                   sr_final_summary, an_log, cb_log, llm_log, temp_files, chunk_vars,
                   prompt_vars,
                   clean_vars, name_vars>>

\* The finally clause unlinks the file pdf_path names, if any; the function
\* returns and the loop does results[url] = success.
FinallyReturns ==
    /\ rpc = "finally"
    /\ temp_files' = IF sr_pdf_path # 0 THEN temp_files \ {sr_pdf_path} ELSE temp_files
    /\ calls' = [calls EXCEPT ![i].ret = ret]
    /\ results' = odict_set(results, urls[i], ret = "True")
    /\ rpc' = "idle"
    /\ UNCHANGED <<url_file, self_chunk_size, bpc, urls, i, sr_pdf_path, sr_text, sr_chunks,
                   sr_chunk_summaries, sr_final_summary, ret, failed, an_log, cb_log, llm_log,
                   out_dir, chunk_vars, prompt_vars,
                   clean_vars, name_vars>>

\* os.unlink(pdf_path) raises inside the finally clause: the exception replaces
\* the return value and leaves analyze_single_report and analyze_all_reports.
FinallyUnlinkRaises ==
    /\ rpc = "finally"
    /\ sr_pdf_path # 0
    /\ failed' = IF failed = "none" THEN "unlink" ELSE failed
    /\ ret' = "raised"
    /\ calls' = [calls EXCEPT ![i].ret = "raised"]
    /\ rpc' = "idle"
    /\ bpc' = "raised"
    /\ UNCHANGED <<url_file, self_chunk_size, urls, i, results, sr_pdf_path, sr_text,
                   sr_chunks, sr_chunk_summaries, sr_final_summary, an_log, cb_log, llm_log,
                   disk_vars, chunk_vars, prompt_vars,
                   clean_vars, name_vars>>

\* return results
BatchReturns ==
    /\ bpc = "loop"
    /\ rpc = "idle"
    /\ i = Len(urls)
    /\ bpc' = "returned"
    /\ UNCHANGED <<url_file, self_chunk_size, urls, i, results, calls, report_vars,
                   disk_vars, chunk_vars, prompt_vars,
                   clean_vars, name_vars>>

----------------------------------------------------------------------------
(* The chunker on its own: every text and chunk size within the bounds *)

TextAlphabet == {"a", "b", " ", "\n"}
ChunkIdle == ck_text = <<>> /\ ck_size = 1 /\ ck_pc = "idle" /\ ck_chunks = <<>>
PromptIdle ==
    /\ pl_file = [exists |-> FALSE, content |-> <<>>]
    /\ pl_pc = "idle"
    /\ pl_out = [ok |-> FALSE, error |-> "", prompts |-> EmptyDict]

ChunkInit ==
    /\ ck_text \in SeqsUpTo(TextAlphabet, MaxTextLen)
    /\ ck_size \in (-1)..MaxChunkSize
    /\ ck_pc = "call"
    /\ ck_chunks = <<>>
    /\ PromptIdle
    /\ PipelineIdle
    /\ CleanIdle
    /\ NameIdle

ChunkCall ==
    /\ ck_pc = "call"
    /\ ck_chunks' = chunk_text(ck_text, ck_size)
    /\ ck_pc' = "done"
    /\ UNCHANGED <<ck_text, ck_size, prompt_vars, pipeline_vars,
                   clean_vars, name_vars>>

ChunkNext == ChunkCall

SpecChunk == ChunkInit /\ [][ChunkNext]_vars

----------------------------------------------------------------------------
(* The prompt loader on its own: every prompt file within the bounds *)

PromptTokens == {"[", "]", " ", "CHUNK_ANALYSIS_PROMPT", "SUMMARY_COMBINATION_PROMPT"}

\* Files with sections of other names: two sections, one name twice, no
\* bracket at all, names that differ in case only, a name padded with blanks.
PromptExamples ==
    { <<"[", "A", "]", "x", "[", "B", "]", "y">>,
      <<"[", "A", "]", "x", "[", "A", "]", "y">>,
      <<"x", "y">>,
      <<"[", "a", "]", "x", "[", "A", "]", "y">>,
      <<"[", " ", "A", "\n", "]", "x", "[", "A", "]", "y">> }

PromptInit ==
    /\ pl_file \in {[exists |-> FALSE, content |-> <<>>]}
                   \cup {[exists |-> TRUE, content |-> c] :
                            c \in SeqsUpTo(PromptTokens, MaxPromptLen) \cup PromptExamples}
    /\ pl_pc = "call"
    /\ pl_out = [ok |-> FALSE, error |-> "", prompts |-> EmptyDict]
    /\ ChunkIdle
    /\ PipelineIdle
    /\ CleanIdle
    /\ NameIdle

LoadReturns ==
    /\ pl_pc = "call"
    /\ load_prompts(pl_file).ok
    /\ pl_out' = load_prompts(pl_file)
    /\ pl_pc' = "returned"
    /\ UNCHANGED <<pl_file, chunk_vars, pipeline_vars,
                   clean_vars, name_vars>>

LoadRaises ==
    /\ pl_pc = "call"
    /\ ~load_prompts(pl_file).ok
    /\ pl_out' = load_prompts(pl_file)
    /\ pl_pc' = "raised"
    /\ UNCHANGED <<pl_file, chunk_vars, pipeline_vars,
                   clean_vars, name_vars>>

PromptNext == LoadReturns \/ LoadRaises

SpecPrompts == PromptInit /\ [][PromptNext]_vars

----------------------------------------------------------------------------
(* The filename derivation on its own: every URL made of a scheme part, a host
   of up to MaxHostParts pieces and a path, and every fallback index *)

UrlHeads == { <<"h", "t", "t", "p", ":", "/", "/">>, <<"h", "t", "t", "p", ":", "/">> }
UrlTails == { <<>>, <<"/", "a">> }
HostPieces ==
    { P_www, P_assets, P_assets_dam, S_jnj, <<"J", "n", "J">>, <<"x", "-", "y">>,
      <<".">>, <<"c", "o", "m">>, <<"[">> }

RECURSIVE Flatten(_)
Flatten(pieces) == IF pieces = <<>> THEN <<>> ELSE Head(pieces) \o Flatten(Tail(pieces))

NameInit ==
    /\ fn_url \in {head \o Flatten(host) \o tail :
                      head \in UrlHeads, host \in SeqsUpTo(HostPieces, MaxHostParts),
                      tail \in UrlTails}
    /\ fn_index \in 1..MaxLines
    /\ fn_pc = "call"
    /\ fn_out = <<>>
    /\ ChunkIdle
    /\ PromptIdle
    /\ PipelineIdle
    /\ CleanIdle

\* company_name = self._extract_company_name_from_url(pdf_url) and the
\* filename chosen from it.
NameCall ==
    /\ fn_pc = "call"
    /\ fn_out' = [none |-> extract_company_name_from_url(fn_url).none,
                  name |-> extract_company_name_from_url(fn_url).name,
                  filename |-> output_filename(fn_url, fn_index)]
    /\ fn_pc' = "done"
    /\ UNCHANGED <<fn_url, fn_index, chunk_vars, prompt_vars, pipeline_vars, clean_vars>>

NameNext == NameCall

SpecName == NameInit /\ [][NameNext]_vars

----------------------------------------------------------------------------
(* The URL reader on its own: every URL file of up to MaxUrlFileLen lines, the
   analyzer already constructed *)

LINE_PADDED_URL == <<" ", "h", "t", "t", "p", ":", "/", "/", "a", " ", "\n">>
LINE_INDENTED_COMMENT == <<" ", "#", "c", "\n">>
LINE_BARE_HTTP == <<"h", "t", "t", "p">>
LINE_HTTP_INSIDE == <<"x", "h", "t", "t", "p", ":", "/", "/", "a", "\n">>
LINE_EMPTY == <<"\n">>

UrlFileLines ==
    FileLines \cup {LINE_PADDED_URL, LINE_INDENTED_COMMENT, LINE_BARE_HTTP, LINE_HTTP_INSIDE,
                    LINE_EMPTY}

CompletePromptFile ==
    ExistingFile(<<"[", "CHUNK_ANALYSIS_PROMPT", "]", "x", "\n",
                   "[", "SUMMARY_COMBINATION_PROMPT", "]", "x">>)

UrlsInit ==
    /\ pl_file = CompletePromptFile
    /\ pl_pc = "returned"
    /\ pl_out = load_prompts(CompletePromptFile)
    /\ url_file \in {[exists |-> FALSE, lines |-> <<>>]}
                    \cup {[exists |-> TRUE, lines |-> l] : l \in SeqsUpTo(UrlFileLines, MaxUrlFileLen)}
    /\ self_chunk_size = 1
    /\ bpc = "start"
    /\ urls = <<>>
    /\ i = 0
    /\ results = <<>>
    /\ calls = <<>>
    /\ ReportIdle
    /\ temp_files = {}
    /\ out_dir = [exists |-> FALSE, files |-> NoFiles]
    /\ ChunkIdle
    /\ CleanIdle
    /\ NameIdle

UrlsNext == ReadUrlsReturns \/ ReadUrlsRaises

SpecUrls == UrlsInit /\ [][UrlsNext]_vars

----------------------------------------------------------------------------
(* The text cleaner on its own: every page text within the bounds *)

CleanAlphabet == {"a", "1", " ", "\n"}

CleanInit ==
    /\ cl_text \in SeqsUpTo(CleanAlphabet, MaxCleanLen)
    /\ cl_pc = "call"
    /\ cl_out = <<>>
    /\ ChunkIdle
    /\ PromptIdle
    /\ PipelineIdle
    /\ NameIdle

CleanCall ==
    /\ cl_pc = "call"
    /\ cl_out' = clean_text(cl_text)
    /\ cl_pc' = "done"
    /\ UNCHANGED <<cl_text, chunk_vars, prompt_vars, pipeline_vars, name_vars>>

CleanNext == CleanCall

SpecClean == CleanInit /\ [][CleanNext]_vars

----------------------------------------------------------------------------
(* The whole program *)

Next ==
    \/ LoadReturns
    \/ LoadRaises
    \/ ReadUrlsReturns
    \/ ReadUrlsRaises
    \/ CallReport
    \/ DownloadFails
    \/ DownloadWriteFails
    \/ DownloadOk
    \/ ExtractFails
    \/ ExtractOk
    \/ ChunkStep
    \/ AnalyzeStep
    \/ CombineStep
    \/ MakedirsOk
    \/ MakedirsFails
    \/ WriteOpenFails
    \/ WriteOk
    \/ WriteSummaryFails
    \/ FinallyReturns
    \/ FinallyUnlinkRaises
    \/ BatchReturns

Spec == Init /\ [][Next]_vars

----------------------------------------------------------------------------
(* Claims about the batch and the report pipeline (Spec) *)

\* An invocation of analyze_single_report has ended.
InvocationEnded == rpc = "idle" /\ i >= 1

\* C1: for a URL file with n >= 1 valid URLs, analyze_single_report is invoked
\* exactly once for each valid URL, in file order, whatever the reports'
\* outcomes, and the batch returns after the n-th report.
C1_EveryUrlAttemptedInOrder ==
    (bpc \in {"returned", "raised"} /\ Len(urls) >= 1) =>
        /\ bpc = "returned"
        /\ Len(calls) = Len(urls)
        /\ \A k \in 1..Len(urls) : calls[k].url = urls[k] /\ calls[k].url_index = k

\* C2: analyze_single_report never propagates an error: whichever step fails,
\* the call ends by returning a boolean, and returns False when the step is a
\* hard failure point.
C2_NeverPropagates ==
    /\ \A k \in 1..Len(calls) : calls[k].ret # "raised"
    /\ (InvocationEnded /\ failed # "none") => ret = "False"

\* C3: after analyze_single_report has ended, on every exit path, the temporary
\* PDF file download_pdf created for that report no longer exists.
C3_TempFileRemoved ==
    \A k \in 1..Len(calls) : calls[k].ret # "pending" => k \notin temp_files

\* Every request of the invocation failed (raised, or returned no choices).
EveryLlmCallFailed ==
    /\ \A k \in 1..Len(an_log) : an_log[k].llm \in {"error", "malformed"}
    /\ \A k \in 1..Len(cb_log) : cb_log[k].llm \in {"error", "malformed"}

\* C4: with a prompt store that passed loading, when download, temp-file
\* persistence, extraction and chunking succeed and the output directory and
\* file are writable, analyze_single_report returns True and writes the output
\* file, whatever the chat-completion requests do; when every request fails the
\* body is the error-marker string.
C4_DegradedSummariesStillSucceed ==
    (/\ InvocationEnded
     /\ pl_out.ok
     /\ sr_chunks # <<>>
     /\ failed \notin {"makedirs", "open", "write", "unlink"}) =>
        LET filename == output_filename(urls[i], i)
        IN /\ ret = "True"
           /\ filename \in DOMAIN out_dir.files
           /\ out_dir.files[filename].source = urls[i]
           /\ out_dir.files[filename].complete
           /\ EveryLlmCallFailed =>
                 out_dir.files[filename].body
                    = <<"Error generating final summary: ">> \o llm_error_message(cb_log[1].llm)

\* C5: analyze_chunk(chunk, i, total) never raises and always returns a string:
\* the completion text when the request succeeds, and exactly
\* "Error analyzing chunk {i}: {message}" when it fails.
C5_AnalyzeChunkAlwaysAString ==
    \A k \in 1..Len(an_log) :
        LET c == an_log[k]
        IN /\ ~c.raised
           /\ c.value.kind = "str"
           /\ c.llm = "text" => c.value = Str(CompletionText)
           /\ c.llm \in {"error", "malformed"} =>
                 c.value = Str(<<"Error analyzing chunk ", ToString(c.chunk_number), ": ">>
                               \o llm_error_message(c.llm))

\* C6: combine_summaries never raises for the summaries step 5 produced: it
\* sends exactly one request and returns the completion text, or exactly
\* "Error generating final summary: {message}" when the request fails.
C6_CombineNeverRaises ==
    \A k \in 1..Len(cb_log) :
        LET c == cb_log[k]
        IN /\ ~c.raised
           /\ c.requests = 1
           /\ c.value.kind = "str"
           /\ c.llm = "text" => c.value = Str(CompletionText)
           /\ c.llm \in {"error", "malformed"} =>
                 c.value = Str(<<"Error generating final summary: ">>
                               \o llm_error_message(c.llm))

\* The URLs of a list without their repetitions, in order of first occurrence.
FirstOccurrences(seq) ==
    LET firsts == {k \in 1..Len(seq) : \A j \in 1..(k - 1) : seq[j] # seq[k]}
        nth(n) == CHOOSE k \in firsts : Cardinality({j \in firsts : j <= k}) = n
    IN [n \in 1..Cardinality(firsts) |-> seq[nth(n)]]

\* The last invocation made for a URL.
LastCallFor(url) ==
    CHOOSE k \in 1..Len(calls) :
        calls[k].url = url /\ \A j \in (k + 1)..Len(calls) : calls[j].url # url

----------------------------------------------------------------------------
(* Claims about chunk_text (SpecChunk) *)

CeilDiv(w, c) == (w + c - 1) \div c

RECURSIVE ConcatWords(_)
\* The words of every chunk, in chunk order.
ConcatWords(chunks) ==
    IF chunks = <<>> THEN <<>> ELSE split(Head(chunks)) \o ConcatWords(Tail(chunks))

\* C7: for a text of W whitespace-separated words and a chunk size C > 0,
\* chunk_text returns exactly ceil(W/C) chunks, every chunk but the last holds
\* exactly C words and the last holds between 1 and C words; W = 0 gives no chunk.
C7_ChunkCountAndSizes ==
    (ck_pc = "done" /\ ck_size > 0) =>
        LET W == Len(split(ck_text))
            n == Len(ck_chunks)
        IN /\ n = CeilDiv(W, ck_size)
           /\ \A k \in 1..(n - 1) : Len(split(ck_chunks[k])) = ck_size
           /\ n > 0 => Len(split(ck_chunks[n])) \in 1..ck_size
           /\ W = 0 => ck_chunks = <<>>

\* A text of three words cut into a full chunk and a shorter last one.
C7_Witness ==
    /\ ck_pc = "done"
    /\ ck_size = 2
    /\ Len(split(ck_text)) = 3
    /\ Len(ck_chunks) = 2
    /\ Len(split(ck_chunks[2])) = 1

\* C8: for every text and chunk size C > 0, the words of the returned chunks,
\* concatenated in chunk order, are the words of the text: none dropped,
\* duplicated or reordered.
C8_ChunkRoundTrip ==
    (ck_pc = "done" /\ ck_size > 0) => ConcatWords(ck_chunks) = split(ck_text)

\* A text with a newline and a run of blanks, cut into more than one chunk.
C8_Witness ==
    /\ ck_pc = "done"
    /\ ck_size = 1
    /\ \E k \in 1..Len(ck_text) : ck_text[k] = "\n"
    /\ Len(ck_chunks) >= 2
    /\ ConcatWords(ck_chunks) = split(ck_text)
    /\ Len(ck_text) > Len(join(<<" ">>, ck_chunks))

----------------------------------------------------------------------------
(* Claims about _load_prompts (SpecPrompts) *)

\* C10: _load_prompts raises when the prompt file does not exist, or when after
\* parsing a required section is missing or maps to an empty string; so when it
\* returns, both required templates are present and non-empty.
C10_LoadRejectsMissingOrEmpty ==
    /\ (pl_pc \in {"returned", "raised"} /\ ~pl_file.exists) => pl_pc = "raised"
    /\ pl_pc = "returned" =>
          \A required \in required_prompts :
              /\ required \in DOMAIN pl_out.prompts
              /\ pl_out.prompts[required] # <<>>

\* The "[" markers of a prompt file, by position; the text a marker owns runs
\* to the next "[" or to the end of the file.
Markers(content) == {p \in 1..Len(content) : content[p] = "["}
MarkerText(content, p) ==
    LET later == {q \in Markers(content) : q > p}
        stop == IF later = {} THEN Len(content) + 1 ELSE SetMin(later)
    IN SubSeq(content, p + 1, stop - 1)
ClosedMarkers(content) ==
    {p \in Markers(content) : \E k \in 1..Len(MarkerText(content, p)) : MarkerText(content, p)[k] = "]"}
MarkerName(content, p) ==
    SubSeq(MarkerText(content, p), 1, first_index(MarkerText(content, p), "]") - 1)
MarkerBody(content, p) ==
    SubSeq(MarkerText(content, p), first_index(MarkerText(content, p), "]") + 1,
           Len(MarkerText(content, p)))
LoadEnded == pl_pc \in {"returned", "raised"} /\ pl_file.exists

\* C11: parsing a prompt file stores, for each [NAME] marker, the trimmed text
\* up to the next "[" or the end of the file, the last marker of a name
\* winning; text before the first "[" and a section without "]" store
\* nothing; a file without "[" gives an empty store, which validation rejects.
C11_SectionsParsed ==
    LoadEnded =>
        LET content == pl_file.content
            parsed == pl_out.parsed
            closed == ClosedMarkers(content)
        IN /\ \A p \in closed :
                 LET key == strip(MarkerName(content, p))
                 IN /\ key \in DOMAIN parsed
                    /\ (\A q \in closed : q > p => strip(MarkerName(content, q)) # key)
                          => parsed[key] = strip(MarkerBody(content, p))
           /\ \A key \in DOMAIN parsed :
                 \E p \in closed : strip(MarkerName(content, p)) = key
           /\ Markers(content) = {} => parsed = EmptyDict /\ pl_pc = "raised"
           /\ content = <<"[", "A", "]", "x", "[", "B", "]", "y">>
                 => parsed = (<<"A">> :> <<"x">>) @@ (<<"B">> :> <<"y">>)
           /\ content = <<"[", "A", "]", "x", "[", "A", "]", "y">>
                 => parsed = (<<"A">> :> <<"y">>)

\* A name occurs twice with two different bodies and the later body is stored,
\* next to text before the first marker or an unclosed section.
C11_Witness ==
    /\ LoadEnded
    /\ \E p, q \in ClosedMarkers(pl_file.content) :
          /\ p < q
          /\ strip(MarkerName(pl_file.content, p)) = strip(MarkerName(pl_file.content, q))
          /\ strip(MarkerBody(pl_file.content, p)) # strip(MarkerBody(pl_file.content, q))
          /\ pl_out.parsed[strip(MarkerName(pl_file.content, q))]
                = strip(MarkerBody(pl_file.content, q))
    /\ \/ pl_file.content[1] # "["
       \/ ClosedMarkers(pl_file.content) # Markers(pl_file.content)

\* C12 as stated: the key of a section is the text between "[" and the first
\* "]" with nothing removed, so the keys of the store are exactly the bracketed
\* texts of the closed markers.
C12_KeyVerbatim ==
    LoadEnded =>
        DOMAIN pl_out.parsed
            = {MarkerName(pl_file.content, p) : p \in ClosedMarkers(pl_file.content)}

\* C12: the key of a section is the text between "[" and the first "]" with
\* leading and trailing whitespace removed and nothing else changed (inner
\* whitespace and case are kept), so two markers name the same section exactly
\* when their bracketed texts are identical after that trimming.
C12_KeyStripped ==
    LoadEnded =>
        LET content == pl_file.content
            parsed == pl_out.parsed
        IN /\ DOMAIN parsed = {strip(MarkerName(content, p)) : p \in ClosedMarkers(content)}
           /\ \A key \in DOMAIN parsed :
                 key = <<>> \/ (key[1] \notin Whitespace /\ key[Len(key)] \notin Whitespace)
           /\ content = <<"[", "a", "]", "x", "[", "A", "]", "y">>
                 => parsed = (<<"a">> :> <<"x">>) @@ (<<"A">> :> <<"y">>)
           /\ content = <<"[", "C", " ", "C", "]">>
                 => DOMAIN parsed = {<<"C", " ", "C">>}

\* Two markers whose bracketed texts differ in surrounding whitespace only
\* have named one section: the store holds one key, with the later body.
C12_Witness ==
    /\ LoadEnded
    /\ pl_file.content = <<"[", " ", "A", "\n", "]", "x", "[", "A", "]", "y">>
    /\ pl_out.parsed = (<<"A">> :> <<"y">>)

----------------------------------------------------------------------------
(* Claims about a report that fails early (Spec) *)

\* The invocation under way, or the last one, failed in one of steps 1-4:
\* the download or its temporary file, the extraction, an empty text, no chunks.
FailedInSteps1to4 ==
    failed \in {"download", "temp_write", "extract", "empty_text", "no_chunks"}

\* C13: when one of steps 1-4 of analyze_single_report fails, the call returns
\* False, no chat-completion request is issued for that report, and no step of
\* that invocation creates the output directory or writes to it.
C13_EarlyFailureReturnsFalse ==
    /\ [](FailedInSteps1to4 => llm_log = <<>>)
    /\ []((FailedInSteps1to4 /\ InvocationEnded) => ret = "False")
    /\ [][(rpc \in {"download", "extract", "chunk"} \/ FailedInSteps1to4)
            => out_dir' = out_dir]_vars

----------------------------------------------------------------------------
(* Claims about the filename derivation (SpecName) *)

HostPrefixes == {P_www, P_assets, P_assets_dam}

\* rest is host with one leading www., assets. or assets-dam. removed.
PrefixRemoved(host, rest) ==
    \/ \E prefix \in HostPrefixes : host = prefix \o rest
    \/ (\A prefix \in HostPrefixes : ~StartsWith(host, prefix)) /\ rest = host

\* label is the first DNS label of rest: what stands before its first dot.
FirstLabel(rest, label) ==
    /\ \A k \in 1..Len(label) : label[k] # "."
    /\ rest = label \/ StartsWith(rest, label \o <<".">>)

Dotted(rest) == \E k \in 1..Len(rest) : rest[k] = "."

MappedValues(label) ==
    {company_mapping[k][2] : k \in {n \in 1..Len(company_mapping) : Contains(label, company_mapping[n][1])}}

Sanitized(label) ==
    [k \in 1..Len(label) |->
        IF label[k] \in Letters \cup UpperLetters \cup Digits THEN lower_char(label[k]) ELSE "_"]

Prefixes(s) == {SubSeq(s, 1, n) : n \in 0..Len(s)}
Suffixes(s) == {SubSeq(s, n, Len(s)) : n \in 1..(Len(s) + 1)}

FallbackName(url_index) == S_report_ \o <<ToString(url_index)>> \o S_analysis_txt

\* C14 as stated: for every URL the slug is the mapped value when the first
\* label of the prefix-stripped lower-cased host contains a key of the company
\* table, the sanitized label otherwise; the file is {slug}_analysis.txt, and
\* report_{index}_analysis.txt exactly when derivation raises or the slug is empty.
C14_TableForEveryHost ==
    fn_pc = "done" =>
        LET parsed == url_netloc(fn_url)
            host == lower(parsed.netloc)
        IN \/ ~parsed.ok /\ fn_out.none /\ fn_out.filename = FallbackName(fn_index)
           \/ /\ parsed.ok
              /\ \E rest \in Suffixes(host) :
                    /\ PrefixRemoved(host, rest)
                    /\ \E label \in Prefixes(rest) :
                          /\ FirstLabel(rest, label)
                          /\ ~fn_out.none
                          /\ IF MappedValues(label) # {}
                             THEN fn_out.name \in MappedValues(label)
                             ELSE fn_out.name = Sanitized(label)
              /\ fn_out.filename = IF fn_out.name = <<>> THEN FallbackName(fn_index)
                                   ELSE fn_out.name \o S_analysis_txt

\* C14: the company table is consulted only when the prefix-stripped host has
\* at least two dot-separated parts; then the slug is the mapped value of a
\* key the first label contains, else the sanitized label.  A host without a
\* dot gives the sanitized label whatever it contains.  The file is
\* {slug}_analysis.txt, and report_{index}_analysis.txt exactly when
\* derivation raises or the slug is empty.
C14_TableForDottedHost ==
    fn_pc = "done" =>
        LET parsed == url_netloc(fn_url)
            host == lower(parsed.netloc)
        IN \/ ~parsed.ok /\ fn_out.none /\ fn_out.filename = FallbackName(fn_index)
           \/ /\ parsed.ok
              /\ \E rest \in Suffixes(host) :
                    /\ PrefixRemoved(host, rest)
                    /\ \E label \in Prefixes(rest) :
                          /\ FirstLabel(rest, label)
                          /\ ~fn_out.none
                          /\ IF Dotted(rest) /\ MappedValues(label) # {}
                             THEN fn_out.name \in MappedValues(label)
                             ELSE fn_out.name = Sanitized(label)
              /\ fn_out.filename = IF fn_out.name = <<>> THEN FallbackName(fn_index)
                                   ELSE fn_out.name \o S_analysis_txt

\* A host without a dot that contains a key of the table: the file is named
\* after the host as it stands.
C14_Witness ==
    /\ fn_pc = "done"
    /\ fn_url = <<"h", "t", "t", "p", ":", "/", "/", "J", "n", "J", "/", "a">>
    /\ fn_out.filename = S_jnj \o S_analysis_txt

----------------------------------------------------------------------------
(* Claims about configuration errors (Spec) *)

\* A line of the URL file that is kept: stripped, it starts with http (so it is
\* neither empty nor a comment).
ValidLine(line) == StartsWith(strip(line), S_http)
NoValidUrl == \A k \in 1..Len(url_file.lines) : ~ValidLine(url_file.lines[k])

\* No report has been touched: no invocation, no download, no request, no
\* temporary file, no output directory.
NothingTouched ==
    /\ calls = <<>>
    /\ rpc = "idle"
    /\ llm_log = <<>>
    /\ temp_files = {}
    /\ out_dir = [exists |-> FALSE, files |-> NoFiles]
    /\ results = <<>>

\* C15: when prompt loading fails, or the URL file is missing or has no valid
\* URL, an error is raised to the caller (the constructor raises and the batch
\* is never started, or analyze_all_reports raises) and no report has been
\* touched: no download, no chat-completion request, no output write.
C15_ConfigErrorIsFatal ==
    /\ (pl_pc # "call" /\ ~pl_out.ok) => (pl_pc = "raised" /\ bpc = "start" /\ NothingTouched)
    /\ (~url_file.exists \/ NoValidUrl) => (bpc \in {"start", "raised"} /\ NothingTouched)

\* analyze_all_reports has raised on a URL file that exists and has lines, none
\* of them a URL.
C15_Witness ==
    /\ bpc = "raised"
    /\ url_file.exists
    /\ Len(url_file.lines) = MaxLines
    /\ NoValidUrl
    /\ NothingTouched

----------------------------------------------------------------------------
(* Claims about _read_urls_from_file (SpecUrls) *)

StrippedLines == [k \in 1..Len(url_file.lines) |-> strip(url_file.lines[k])]
Kept(line) == line # <<>> /\ line[1] # "#" /\ StartsWith(line, S_http)
Junk(line) == line # <<>> /\ line[1] # "#" /\ ~StartsWith(line, S_http)
NotJunkLine(line) == ~Junk(strip(line))

\* C16: _read_urls_from_file returns exactly the subsequence, in file order,
\* of the stripped lines that are non-empty, are no comment and start with
\* http; a line that is none of blank, comment or URL does not abort the
\* read and does not change what is returned for the other lines.
C16_KeptLinesInOrder ==
    /\ bpc = "loop" => urls = SelectSeq(StrippedLines, Kept)
    /\ (bpc # "start" /\ \E k \in 1..Len(StrippedLines) : Kept(StrippedLines[k]))
          => bpc = "loop"
    /\ bpc = "loop"
          => urls = read_urls_from_file([url_file EXCEPT
                                           !.lines = SelectSeq(url_file.lines, NotJunkLine)]).urls

\* A line that is no URL stands between two URLs, and both URLs are returned.
C16_Witness ==
    /\ bpc = "loop"
    /\ Len(url_file.lines) = 3
    /\ Kept(StrippedLines[1]) /\ Junk(StrippedLines[2]) /\ Kept(StrippedLines[3])
    /\ urls = <<StrippedLines[1], StrippedLines[3]>>
    /\ StrippedLines[1] # url_file.lines[1]

----------------------------------------------------------------------------
(* Claims about the output file and the order of steps (Spec) *)

\* C17: a run that completes its write leaves, under the name derived from its
\* URL and index, one file holding the header (title, Source: url, a divider of
\* 80 characters) and the combined summary and nothing else; when a file of
\* that name already holds what a run with the same URL and the same responses
\* wrote, the output directory after the write is what it was before: one
\* file of that name, identical content, nothing appended.
C17_RerunIsIdempotent ==
    [][(rpc = "write" /\ ret' = "True") =>
         LET filename == output_filename(calls[i].url, calls[i].url_index)
             before == out_dir.files
             after == out_dir'.files
         IN /\ DOMAIN after = DOMAIN before \cup {filename}
            /\ \A f \in DOMAIN before \ {filename} : after[f] = before[f]
            /\ after[filename].title = "Financial Report Analysis"
            /\ after[filename].source = calls[i].url
            /\ after[filename].divider = 80
            /\ after[filename].body = sr_final_summary.s
            /\ after[filename].complete
            /\ (/\ filename \in DOMAIN before
                /\ before[filename].source = calls[i].url
                /\ before[filename].body = sr_final_summary.s
                /\ before[filename].complete) => out_dir' = out_dir]_vars

\* The same URL has been run twice, up to the write both times, with the same
\* combined summary: the directory holds one file, with that summary once.
C17_Witness ==
    /\ Len(calls) = 2
    /\ calls[1].url = calls[2].url
    /\ calls[1].ret = "True"
    /\ rpc = "finally" /\ ret = "True"
    /\ DOMAIN out_dir.files = {output_filename(calls[2].url, calls[2].url_index)}
    /\ out_dir.files[output_filename(calls[1].url, calls[1].url_index)]
          = FileContent(calls[2].url, CompletionText, TRUE)

ChunkRequest(n) == [kind |-> "chunk", chunk_number |-> n]
CombineRequest == [kind |-> "combine", chunk_number |-> 0]
ChunkRequestsUpTo(n) == [k \in 1..n |-> ChunkRequest(k)]
PastChunkAnalysis == rpc \in {"combine", "makedirs", "write"} \/ (rpc \in {"finally", "idle"} /\ ~FailedInSteps1to4)

\* The requests of the invocation so far are those of chunks 1..m in ascending
\* order, each once, followed by the combine request only when m is the number
\* of chunks, every chunk summary exists and the combine step was handed the
\* summaries in chunk order; nothing is written before the combine step; an
\* invocation starts only when every earlier one has returned.
StepsInOrder ==
    /\ \E m \in 0..Len(sr_chunks) :
          \/ llm_log = ChunkRequestsUpTo(m)
          \/ /\ m = Len(sr_chunks)
             /\ llm_log = Append(ChunkRequestsUpTo(m), CombineRequest)
             /\ Len(sr_chunk_summaries) = m
             /\ Len(cb_log) = 1
             /\ cb_log[1].chunk_summaries = [k \in 1..m |-> an_log[k].value]
    /\ (rpc \in {"makedirs", "write"} \/ ret = "True") => Len(cb_log) = 1
    /\ \A k \in 1..(Len(calls) - 1) : calls[k].ret \in {"True", "False"}

\* C18: within a report with N chunks exactly N chunk requests are issued, for
\* indexes 1..N in ascending order and none repeated; the single combine
\* request comes only after all N chunk summaries exist and is given them in
\* chunk order; the write follows the combine; no step of the next report
\* starts before the invocation of this one has returned.
C18_OneTotalOrder ==
    /\ StepsInOrder
    /\ (i >= 1 /\ sr_chunks # <<>> /\ PastChunkAnalysis)
          => SelectSeq(llm_log, LAMBDA r : r.kind = "chunk") = ChunkRequestsUpTo(Len(sr_chunks))

----------------------------------------------------------------------------
(* Claims about the fallback index (Spec) *)

NoSlug(url) ==
    LET company_name == extract_company_name_from_url(url)
    IN company_name.none \/ company_name.name = <<>>

\* C19: the index passed with a URL is its 1-based position among the retained
\* URLs (blank, comment and non-http lines are not counted); a batch that
\* returns has passed exactly 1..n in order; a file is named
\* report_{index}_analysis.txt only by the invocation with that index and
\* only for a URL that gives no company slug.  (The list is compared with the
\* file when the read returns; the files are looked at when a write has just
\* been made and whenever an invocation has ended.)
C19_IndexIsPosition ==
    /\ (bpc = "loop" /\ i = 0) => urls = SelectSeq(StrippedLines, Kept)
    /\ \A k \in 1..Len(calls) : calls[k].url_index = k /\ calls[k].url = urls[k]
    /\ bpc = "returned" => Len(calls) = Len(urls)
    /\ InvocationEnded =>
          /\ \A f \in DOMAIN out_dir.files :
                StartsWith(f, S_report_) => \E n \in 1..Len(calls) : f = FallbackName(n)
          /\ \A n \in 1..Len(calls) :
                FallbackName(n) \in DOMAIN out_dir.files => NoSlug(calls[n].url)
    /\ (rpc = "finally" /\ ret = "True") =>
          LET f == output_filename(calls[i].url, calls[i].url_index)
          IN /\ f \in DOMAIN out_dir.files
             /\ f = FallbackName(i) <=> NoSlug(calls[i].url)

\* A URL without host stands on the second line, after a line that is not
\* kept: it is run with index 1 and its file is report_1_analysis.txt.
C19_Witness ==
    /\ Len(url_file.lines) = 2
    /\ ~ValidLine(url_file.lines[1])
    /\ calls # <<>>
    /\ calls[1].ret = "True"
    /\ NoSlug(calls[1].url)
    /\ DOMAIN out_dir.files = {FallbackName(1)}

----------------------------------------------------------------------------
(* Claims about _clean_text (SpecClean) *)

----------------------------------------------------------------------------
(* Claims about what a batch leaves in the output directory (Spec) *)

DistinctUrls == \A k, n \in 1..Len(urls) : k # n => urls[k] # urls[n]

\* C21: when analyze_all_reports has returned for a list of distinct URLs,
\* every URL whose result is True has a complete file in the output directory
\* whose Source line names that URL: no later report of the batch has
\* overwritten it.
C21_SuccessfulFilesSurvive ==
    (bpc = "returned" /\ DistinctUrls) =>
        \A k \in 1..Len(results) :
            results[k].value =>
                \E f \in DOMAIN out_dir.files :
                    out_dir.files[f].source = results[k].key /\ out_dir.files[f].complete

\* C22: an invocation of analyze_single_report that returns False leaves the
\* files of the output directory as they were before the call: no step of it
\* other than the completed write changes a file, and when it has returned
\* False no file of the directory is partially written.
C22_FalseLeavesDirectoryAlone ==
    /\ [][(rpc # "idle" /\ ret' # "True") => out_dir'.files = out_dir.files]_vars
    /\ []((InvocationEnded /\ ret = "False") =>
            \A f \in DOMAIN out_dir.files : out_dir.files[f].complete)

\* chunk_text gives at least one chunk for a text that is not blank: the
\* "No text chunks created" branch is never taken.
NoChunksUnreachable == failed # "no_chunks"

\* C23: the "No text chunks created" failure is never reached, and every
\* report whose text passes the non-empty check issues at least one chunk
\* request.
C23_EveryTextGetsARequest ==
    /\ NoChunksUnreachable
    /\ (InvocationEnded /\ strip(sr_text) # <<>>) =>
          \E k \in 1..Len(llm_log) : llm_log[k].kind = "chunk"

====
